---- MODULE Spec2Model ----
(***************************************************************************)
(* Model of the surveillance backend (src/backend/main.py): the two-stage  *)
(* image pipeline (detector -> per-box classifier -> fusion -> status),    *)
(* the video pipeline with frame sampling and temp-file cleanup, and the   *)
(* background training controller with its hot-swap of the classifier.     *)
(*                                                                         *)
(* Confidences are percentages rounded to two decimals in the code; the    *)
(* model holds them as integers in hundredths of a percent (80.01 = 8001). *)
(* Optional values (Python None) are sequences: <<>> is None, <<v>> is v.  *)
(***************************************************************************)
EXTENDS Integers, Sequences, FiniteSets, TLC

VARIABLES
    vit_model,      \* the production classifier handle (global vit_model)
    VIT_CLASSES,    \* the production label set (global VIT_CLASSES)
    ckpt,           \* the checkpoint file VIT_WEIGHTS on disk
    train_state,    \* the global TrainingState dict
    train_lock,     \* holder of train_lock: <<>> when free, else <<kind, id>>
    threads,        \* the _train threads started so far, with their locals
    rt,             \* the retrain_model handler (event loop)
    req,            \* the image-analysis handler (event loop)
    vid,            \* the detect_video handler (event loop)
    disk,           \* the temporary files of detect_video: name -> content
    boot,           \* what module load produced (never changes afterwards)
    ws,             \* the websocket_feed handler and its channel (event loop)
    poll            \* the train_status handler (thread pool)

vars == <<vit_model, VIT_CLASSES, ckpt, train_state, train_lock, threads,
          rt, req, vid, disk, boot, ws, poll>>

---------------------------------------------------------------------------
(* Bounds of the model *)

MaxRuns == 2        \* training runs started in one behaviour
MaxSwapRuns == 1    \* training runs started while image requests interleave
MaxEpochs == 2      \* largest epochs parameter of a start request
MaxFrames == 12     \* most frames a video yields
MaxInterval == 5    \* largest frame_interval tried (the code admits 1..60)
MaxPattern == 2     \* length of the repeating scene pattern of a video
MaxWsFrames == 2    \* frames a client sends on one streaming channel
MaxPolls == 2       \* status polls issued in one behaviour

---------------------------------------------------------------------------
(* Values *)

Scale == 100        \* round(x * 100, 2): hundredths of a percent per percent

None == <<>>
Some(v) == <<v>>

\* Confidence values around the two thresholds of determine_status.
ConfValues == {2500, 8000, 8001, 8500, 8501}

Max(a, b) == IF a > b THEN a ELSE b

---------------------------------------------------------------------------
(* Strings: str.lower() and the substring test `kw in s` *)

UpperAlpha == "ABCDEFGHIJKLMNOPQRSTUVWXYZ"
LowerAlpha == "abcdefghijklmnopqrstuvwxyz"

LowerChar(c) ==
    IF \E i \in 1..26 : SubSeq(UpperAlpha, i, i) = c
    THEN LET i == CHOOSE j \in 1..26 : SubSeq(UpperAlpha, j, j) = c
         IN  SubSeq(LowerAlpha, i, i)
    ELSE c

RECURSIVE Lower(_)
Lower(s) ==
    IF Len(s) = 0 THEN ""
    ELSE LowerChar(SubSeq(s, 1, 1)) \o Lower(SubSeq(s, 2, Len(s)))

Contains(s, kw) ==
    \E i \in 1..(Len(s) - Len(kw) + 1) : SubSeq(s, i, i + Len(kw) - 1) = kw

---------------------------------------------------------------------------
(* Status heuristic and fusion *)

threat_keywords == {"uav", "drone", "unknown", "aircraft"}

determine_status_nolower(confidence, class_name) ==
    IF (\E kw \in threat_keywords : Contains(class_name, kw))
       /\ confidence > 80 * Scale
    THEN "threat"
    ELSE IF confidence > 85 * Scale THEN "verified" ELSE "analyzing"

determine_status(confidence, class_name) ==
    IF (\E kw \in threat_keywords : Contains(Lower(class_name), kw))
       /\ confidence > 80 * Scale
    THEN "threat"
    ELSE IF confidence > 85 * Scale THEN "verified" ELSE "analyzing"

\* `vit_model` in a boolean context: an nn.Module is truthy, None is not.
Loaded(h) == h # None

\* best_label = vit_label if vit_model and vit_conf > conf else yolo_label
best_label_ge(h, vit_label, vit_conf, yolo_label, conf) ==
    IF Loaded(h) /\ vit_conf >= conf THEN vit_label ELSE yolo_label

best_label(h, vit_label, vit_conf, yolo_label, conf) ==
    IF Loaded(h) /\ vit_conf > conf THEN vit_label ELSE yolo_label

\* best_conf = max(vit_conf, conf) if vit_model else conf
best_conf(h, vit_conf, conf) ==
    IF Loaded(h) THEN Max(vit_conf, conf) ELSE conf

---------------------------------------------------------------------------
(* Module load: the checkpoint file and the classifier built from it *)

DefaultClasses ==
    <<"aircraft", "artelary", "camo_soldier", "civilian_vehical", "mil_truck",
      "mil_vehical", "soldier", "tank", "warship", "weapons">>

\* A label list some earlier training saved (train_classifier.save_checkpoint).
SavedClasses == <<"Drone", "tank">>

\* Checkpoint files found at start-up. fmt "dict" has model_state_dict and
\* optionally classes / num_classes; fmt "raw" is a bare state dict. nout is
\* the size of the head stored in the state dict, by is the run that saved it.
StartupFiles ==
    { None,
      Some([fmt |-> "dict", classes |-> Some(SavedClasses), num_classes |-> Some(2),
            nout |-> 2, by |-> 0, epoch |-> 0]),
      Some([fmt |-> "dict", classes |-> Some(DefaultClasses), num_classes |-> Some(10),
            nout |-> 10, by |-> 0, epoch |-> 0]),
      Some([fmt |-> "dict", classes |-> None, num_classes |-> Some(2),
            nout |-> 2, by |-> 0, epoch |-> 0]),
      Some([fmt |-> "raw", classes |-> None, num_classes |-> None,
            nout |-> 2, by |-> 0, epoch |-> 0]) }

\* Lines 68-97: VIT_CLASSES is taken from the file before the model is
\* built; load_state_dict raises when the head sizes differ, which leaves
\* vit_model None (and VIT_CLASSES as already assigned).
LoadAtStartup(file) ==
    IF file = None THEN [vit_model |-> None, VIT_CLASSES |-> <<>>]
    ELSE LET f == file[1]
             classes == IF f.fmt = "dict" /\ f.classes # None THEN f.classes[1] ELSE <<>>
             num_classes == IF f.fmt = "dict" /\ f.num_classes # None
                            THEN f.num_classes[1] ELSE Len(classes)
         IN  [vit_model |-> IF f.nout = num_classes
                            THEN Some([id |-> 0, nout |-> num_classes, steps |-> 0])
                            ELSE None,
              VIT_CLASSES |-> classes]

IdleReq ==
    [pc |-> "idle", ep |-> "", image |-> None, boxes |-> <<>>, box |-> None,
     detections |-> <<>>, used |-> None, idx |-> 0, vit_label |-> "", vit_conf |-> 0,
     bl |-> "", bc |-> 0, vl |-> None, obs |-> None,
     yolo_calls |-> 0, vit_calls |-> 0, resp |-> None]
IdleRt ==
    [pc |-> "idle", epochs |-> 0, unfreeze_epoch |-> 0, data_exists |-> FALSE,
     resp |-> None]
IdleVid ==
    [pc |-> "idle", frame_interval |-> 1, confidence |-> 0, opens |-> FALSE,
     pattern |-> <<>>, bound |-> {}, frame_idx |-> 0, processed_count |-> 0,
     peak_frame |-> 0, peak_det_count |-> 0, last_annotated |-> None,
     written |-> <<>>, frame_detections |-> <<>>, thumbnail |-> None,
     all_det_objects |-> <<>>, all_confidences |-> <<>>,
     threat_count |-> 0, verified_count |-> 0, analyzing_count |-> 0,
     video_path |-> "", ffmpeg |-> "", pending |-> None, resp |-> None,
     frames |-> <<>>, summary |-> None]

\* websocket_feed: the channel, the frames received so far (TRUE when the
\* frame decodes), the replies sent, and membership in manager.active.
IdleWs ==
    [pc |-> "closed", chan |-> "none", got |-> <<>>, replies |-> <<>>,
     active |-> FALSE]

\* train_status: the fields read so far and the response returned.
IdlePoll == [pc |-> "idle", n |-> 0, snap |-> None, resp |-> None]

\* A TrainingState message: its fixed text and the numbers formatted into it.
Msg(text, epoch, acc) == [text |-> text, epoch |-> epoch, acc |-> acc]

\* Lines 751-762. train_loss, train_acc, val_loss and elapsed_sec are written
\* together with val_acc in every update and are not held separately.
train_state0 ==
    [status |-> "idle", current_epoch |-> 0, total_epochs |-> 0,
     val_acc |-> 0, best_acc |-> 0, message |-> Msg("No training in progress", 0, 0)]

Free == <<>>

Init ==
    \E file \in StartupFiles :
        /\ ckpt = file
        /\ vit_model = LoadAtStartup(file).vit_model
        /\ VIT_CLASSES = LoadAtStartup(file).VIT_CLASSES
        /\ boot = LoadAtStartup(file)
        /\ train_state = train_state0
        /\ train_lock = Free
        /\ threads = <<>>
        /\ rt = IdleRt
        /\ req = IdleReq
        /\ vid = IdleVid
        /\ ws = IdleWs
        /\ poll = IdlePoll
        /\ disk = [f \in {"tmp_in", "tmp_out", "tmp_final"} |-> "absent"]

\* One handler at a time runs on the event loop: the handlers are `async def`
\* and, past their first await, never yield.
LoopFree ==
    /\ rt.pc \in {"idle", "done"}
    /\ req.pc = "idle"
    /\ vid.pc = "idle"
    /\ ws.pc \in {"closed", "recv"}

---------------------------------------------------------------------------
(* Image pipeline: detect, detect_annotated, detect_pipeline, run_detection *)

EntryPoints == {"detect", "detect_annotated", "detect_pipeline"}

YoloLabels == {"tank", "Drone", "airplane", "Unknown", "UAV"}

\* What the detector returns for one object, and what the classifier may
\* answer for its crop: a confidence of vit_confs and an argmax of vit_idxs.
Box(xyxy, conf, label, vit_confs, vit_idxs) ==
    [xyxy |-> xyxy, conf |-> conf, label |-> label,
     vit_confs |-> vit_confs, vit_idxs |-> vit_idxs]

Image(w, h, boxes) == Some([w |-> w, h |-> h, boxes |-> boxes])

\* Uploads of the image-pipeline check: every detector confidence and label
\* against every classifier answer, an image without objects, one with two,
\* one whose object reaches past the left and right edges (box.xyxy is
\* whatever the detector hands back), and bytes that do not decode
\* (cv2.imdecode returns None).
FullImages ==
    { None, Image(64, 48, <<>>),
      Image(64, 48, << Box(<<1, 2, 30, 40>>, 8501, "Drone", {8500}, {1}),
                       Box(<<5, 5, 60, 44>>, 2500, "tank", {8001}, {2}) >>),
      Image(64, 48, << Box(<<-3, 2, 70, 40>>, 8500, "tank", {8000}, {1}) >>) }
    \cup { Image(64, 48, << Box(<<1, 2, 30, 40>>, d, l, ConfValues, 1..10) >>) :
             d \in ConfValues, l \in YoloLabels }

\* Uploads tried while training runs interleave.
SmallImages ==
    { None,
      Image(64, 48, << Box(<<1, 2, 30, 40>>, 8500, "tank", {8000, 8500, 8501}, {1, 2}) >>) }

\* The handler is entered: `await file.read()`, np.frombuffer, cv2.imdecode.
StartImage(images) ==
    /\ LoopFree
    /\ \E ep \in EntryPoints, img \in images :
         req' = [IdleReq EXCEPT !.pc = "validate", !.ep = ep, !.image = img]
    /\ UNCHANGED <<vit_model, VIT_CLASSES, ckpt, train_state, train_lock, threads,
                   rt, vid, disk, boot, ws, poll>>

\* detect_pipeline alone tests `image is None` (lines 322-324).
Validate_of(r) ==
    IF r.ep = "detect_pipeline" /\ r.image = None
    THEN [r EXCEPT !.pc = "done",
                   !.resp = Some([code |-> 400, detail |-> "Invalid image file"])]
    ELSE [r EXCEPT !.pc = "yolo"]

Validate ==
    /\ req.pc = "validate"
    /\ req' = Validate_of(req)
    /\ UNCHANGED <<vit_model, VIT_CLASSES, ckpt, train_state, train_lock, threads,
                   rt, vid, disk, boot, ws, poll>>

\* results = yolo_model(image, verbose=False)[0]; h, w = image.shape[:2].
\* With image None the detector is still called (the library substitutes its
\* sample assets or raises); if it returns, .shape raises AttributeError.
\* Either way the request ends in an unhandled exception (HTTP 500).
Yolo ==
    /\ req.pc = "yolo"
    /\ req' = IF req.image = None
              THEN [req EXCEPT !.pc = "done", !.yolo_calls = @ + 1,
                               !.resp = Some([code |-> 500, detail |-> "AttributeError"])]
              ELSE [req EXCEPT !.pc = "loop", !.yolo_calls = @ + 1,
                               !.boxes = req.image[1].boxes]
    /\ UNCHANGED <<vit_model, VIT_CLASSES, ckpt, train_state, train_lock, threads,
                   rt, vid, disk, boot, ws, poll>>

\* for box in results.boxes: ... ; after the loop the response is returned.
LoopHead ==
    /\ req.pc = "loop"
    /\ req' = IF req.boxes = <<>>
              THEN [req EXCEPT !.pc = "done", !.box = None,
                               !.resp = Some([code |-> 200, detail |-> ""])]
              ELSE [req EXCEPT !.pc = "cc179", !.box = Some(Head(req.boxes)),
                               !.boxes = Tail(req.boxes)]
    /\ UNCHANGED <<vit_model, VIT_CLASSES, ckpt, train_state, train_lock, threads,
                   rt, vid, disk, boot, ws, poll>>

\* classify_crop, line 179: if vit_model is None: return "Unknown", 0.0
Classify179 ==
    /\ req.pc = "cc179"
    /\ req' = IF vit_model = None
              THEN [req EXCEPT !.pc = "l220", !.vit_label = "Unknown", !.vit_conf = 0,
                               !.used = None, !.obs = None]
              ELSE [req EXCEPT !.pc = "cc183"]
    /\ UNCHANGED <<vit_model, VIT_CLASSES, ckpt, train_state, train_lock, threads,
                   rt, vid, disk, boot, ws, poll>>

\* The classifier's answers for a crop: softmax over the handle's outputs.
ClassifierOutputs(handle, box) ==
    { [idx |-> i, conf |-> v] : i \in {j \in box.vit_idxs : j <= handle.nout},
                                v \in box.vit_confs }

\* classify_crop, lines 181-185: the global vit_model is read again and called.
Classify183 ==
    /\ req.pc = "cc183"
    /\ \E o \in ClassifierOutputs(vit_model[1], req.box[1]) :
         req' = [req EXCEPT !.pc = "cc186", !.used = vit_model, !.idx = o.idx,
                            !.vit_conf = o.conf, !.vit_calls = @ + 1]
    /\ UNCHANGED <<vit_model, VIT_CLASSES, ckpt, train_state, train_lock, threads,
                   rt, vid, disk, boot, ws, poll>>

\* classify_crop, line 186: return VIT_CLASSES[idx.item()], ... ; the global
\* VIT_CLASSES is read now, and an index past its end raises IndexError.
Classify186 ==
    /\ req.pc = "cc186"
    /\ req' = IF req.idx > Len(VIT_CLASSES)
              THEN [req EXCEPT !.pc = "done",
                               !.obs = Some([handle |-> req.used[1], classes |-> VIT_CLASSES]),
                               !.resp = Some([code |-> 500, detail |-> "IndexError"])]
              ELSE [req EXCEPT !.pc = "l220",
                               !.obs = Some([handle |-> req.used[1], classes |-> VIT_CLASSES]),
                               !.vit_label = VIT_CLASSES[req.idx]]
    /\ UNCHANGED <<vit_model, VIT_CLASSES, ckpt, train_state, train_lock, threads,
                   rt, vid, disk, boot, ws, poll>>

\* Line 220 (352 in detect_pipeline).
Fuse220 ==
    /\ req.pc = "l220"
    /\ req' = [req EXCEPT !.pc = "l221",
                          !.bl = best_label(vit_model, req.vit_label, req.vit_conf,
                                            req.box[1].label, req.box[1].conf)]
    /\ UNCHANGED <<vit_model, VIT_CLASSES, ckpt, train_state, train_lock, threads,
                   rt, vid, disk, boot, ws, poll>>

\* Line 221 (353).
Fuse221 ==
    /\ req.pc = "l221"
    /\ req' = [req EXCEPT !.pc = "l233",
                          !.bc = best_conf(vit_model, req.vit_conf, req.box[1].conf)]
    /\ UNCHANGED <<vit_model, VIT_CLASSES, ckpt, train_state, train_lock, threads,
                   rt, vid, disk, boot, ws, poll>>

\* Line 233 (372): vitLabel = vit_label if vit_model else None
Field233 ==
    /\ req.pc = "l233"
    /\ req' = [req EXCEPT !.pc = "l234",
                          !.vl = IF Loaded(vit_model) THEN Some(req.vit_label) ELSE None]
    /\ UNCHANGED <<vit_model, VIT_CLASSES, ckpt, train_state, train_lock, threads,
                   rt, vid, disk, boot, ws, poll>>

DetectionResult(objectName, status, confidenceScore, bbox, vitLabel, vitConfidence) ==
    [objectName |-> objectName, status |-> status, confidenceScore |-> confidenceScore,
     bbox |-> bbox, vitLabel |-> vitLabel, vitConfidence |-> vitConfidence]

\* Lines 223-236 (354-375): status, vitConfidence, detections.append(...)
Append234 ==
    /\ req.pc = "l234"
    /\ req' = [req EXCEPT
                 !.pc = "loop",
                 !.detections = Append(@,
                     DetectionResult(req.bl, determine_status(req.bc, req.bl), req.bc,
                                     req.box[1].xyxy, req.vl,
                                     IF Loaded(vit_model) THEN Some(req.vit_conf) ELSE None))]
    /\ UNCHANGED <<vit_model, VIT_CLASSES, ckpt, train_state, train_lock, threads,
                   rt, vid, disk, boot, ws, poll>>

\* The response has been sent and the handler's frame is gone.
ImageReturn ==
    /\ req.pc = "done"
    /\ req.ep \in EntryPoints
    /\ req' = IdleReq
    /\ UNCHANGED <<vit_model, VIT_CLASSES, ckpt, train_state, train_lock, threads,
                   rt, vid, disk, boot, ws, poll>>

\* The steps of run_detection, whoever called it.
DetectStep ==
    \/ Yolo \/ LoopHead
    \/ Classify179 \/ Classify183 \/ Classify186
    \/ Fuse220 \/ Fuse221 \/ Field233 \/ Append234

ImageStep == ImageReturn \/ Validate \/ DetectStep

NextImage == StartImage(FullImages) \/ ImageStep

SpecImage == Init /\ [][NextImage]_vars

---------------------------------------------------------------------------
(* Training controller: retrain_model and its background thread _train *)

\* Validation accuracies an epoch may measure (0 when nothing was validated:
\* va = v_correct / v_total * 100 if v_total else 0).
AccValues == {0, 5000, 7500}

Threads == 1..Len(threads)

\* Thread ids: a run is named by its place in the order of starts.
ThreadIds == 1..MaxRuns

\* unfreeze_epoch: int = Query(default=5), unvalidated: the first epoch, a
\* later one, or the default (past the last epoch of every run tried here).
DefaultUnfreeze == 5
UnfreezeValues == {0, 1, DefaultUnfreeze}

\* POST /model/retrain arrives. epochs and unfreeze_epoch are query
\* parameters; data_exists is whether data_dir exists on the server.
StartRetrain(cap, unfreezes) ==
    /\ LoopFree
    /\ Len(threads) < cap
    /\ \E e \in 1..MaxEpochs, u \in unfreezes, d \in BOOLEAN :
         rt' = [pc |-> "r988", epochs |-> e, unfreeze_epoch |-> u,
                data_exists |-> d, resp |-> None]
    /\ UNCHANGED <<vit_model, VIT_CLASSES, ckpt, train_state, train_lock, threads,
                   req, vid, disk, boot, ws, poll>>

\* Line 988: with train_lock:
RetrainAcquire ==
    /\ rt.pc = "r988"
    /\ train_lock = Free
    /\ train_lock' = <<"retrain", 0>>
    /\ rt' = [rt EXCEPT !.pc = "r989"]
    /\ UNCHANGED <<vit_model, VIT_CLASSES, ckpt, train_state, threads,
                   req, vid, disk, boot, ws, poll>>

\* Lines 989-990, and the release of the lock on leaving the block.
RetrainCheck_none(r) == [r EXCEPT !.pc = "r992"]

RetrainCheck_of(r) ==
    IF train_state.status = "training"
    THEN [IdleRt EXCEPT !.pc = "done",
                        !.resp = Some([code |-> 409, detail |-> "Training already in progress"])]
    ELSE [r EXCEPT !.pc = "r992"]

RetrainCheck ==
    /\ rt.pc = "r989"
    /\ rt' = RetrainCheck_of(rt)
    /\ train_lock' = Free
    /\ UNCHANGED <<vit_model, VIT_CLASSES, ckpt, train_state, threads,
                   req, vid, disk, boot, ws, poll>>

\* Lines 992-994.
RetrainPath ==
    /\ rt.pc = "r992"
    /\ rt' = IF rt.data_exists
             THEN [rt EXCEPT !.pc = "r1141"]
             ELSE [IdleRt EXCEPT !.pc = "done",
                                 !.resp = Some([code |-> 400, detail |-> "Dataset path not found"])]
    /\ UNCHANGED <<vit_model, VIT_CLASSES, ckpt, train_state, train_lock, threads,
                   req, vid, disk, boot, ws, poll>>

\* The locals of _train. model is the object built at line 1013: id names
\* it, nout is the size of its head and steps the number of epochs trained
\* into its weights (0 for a model as loaded from a file). frozen is requires_grad = False on the backbone,
\* rebuilds counts the optimizers built inside the loop, installed is set once
\* the run has assigned a global, and hist has one entry per finished epoch:
\* its validation accuracy, whether the backbone was frozen while it trained,
\* and whether torch.save ran in it.
NewThread(epochs, unfreeze_epoch) ==
    [pc |-> "t1001", epochs |-> epochs, unfreeze_epoch |-> unfreeze_epoch,
     num_classes |-> 0, classes |-> <<>>, model |-> None, epoch |-> 0,
     best_acc |-> 0, va |-> 0, error |-> "", frozen |-> TRUE, rebuilds |-> 0,
     installed |-> FALSE, hist |-> <<>>]

\* A thread that returned: its locals are gone; the model and label list it
\* built live on wherever they were installed.
Ended(th) ==
    [NewThread(th.epochs, th.unfreeze_epoch) EXCEPT !.pc = "done", !.model = th.model,
                                 !.classes = th.classes, !.num_classes = th.num_classes]

\* An exception raised inside the try of _train (lines 1009-1135) is caught
\* by `except Exception as e` at line 1137.
Raise_uncaught(th, e) == Ended(th)

Raise(th, e) == [th EXCEPT !.pc = "t1138", !.error = e]

\* Leaving a `with train_lock:` block of thread t releases the lock.
Released_held(t) == <<"thread", t>>

Released(t) == Free

\* Lines 1141-1142: threading.Thread(target=_train, daemon=True).start()
RetrainSpawn ==
    /\ rt.pc = "r1141"
    /\ threads' = Append(threads, NewThread(rt.epochs, rt.unfreeze_epoch))
    /\ rt' = [rt EXCEPT !.pc = "r1144"]
    /\ UNCHANGED <<vit_model, VIT_CLASSES, ckpt, train_state, train_lock,
                   req, vid, disk, boot, ws, poll>>

\* Line 1144: with train_lock:
RetrainRespAcquire ==
    /\ rt.pc = "r1144"
    /\ train_lock = Free
    /\ train_lock' = <<"retrain", 0>>
    /\ rt' = [rt EXCEPT !.pc = "r1145"]
    /\ UNCHANGED <<vit_model, VIT_CLASSES, ckpt, train_state, threads,
                   req, vid, disk, boot, ws, poll>>

\* Lines 1145-1152: the fixed status="training" response.
RetrainRespond ==
    /\ rt.pc = "r1145"
    /\ rt' = [IdleRt EXCEPT !.pc = "done", !.resp = Some([code |-> 200, detail |-> "training"])]
    /\ train_lock' = Free
    /\ UNCHANGED <<vit_model, VIT_CLASSES, ckpt, train_state, threads,
                   req, vid, disk, boot, ws, poll>>

RetrainStep ==
    \/ RetrainAcquire \/ RetrainCheck \/ RetrainPath
    \/ RetrainSpawn \/ RetrainRespAcquire \/ RetrainRespond

\* A `with train_lock:` of thread t is entered.
TAcquire(t, from, to) ==
    /\ t \in Threads
    /\ threads[t].pc = from
    /\ train_lock = Free
    /\ train_lock' = <<"thread", t>>
    /\ threads' = [threads EXCEPT ![t].pc = to]
    /\ UNCHANGED <<vit_model, VIT_CLASSES, ckpt, train_state, rt, req, vid, disk, boot, ws, poll>>

\* Lines 1001, 1025, 1114, 1131, 1138.
TLock(t) ==
    \/ TAcquire(t, "t1001", "t1002")
    \/ TAcquire(t, "t1025", "t1026")
    \/ TAcquire(t, "t1114", "t1115")
    \/ TAcquire(t, "t1131", "t1132")
    \/ TAcquire(t, "t1138", "t1139")

\* Lines 1002-1007.
TInit(t) ==
    /\ t \in Threads
    /\ threads[t].pc = "t1002"
    /\ train_state' = [status |-> "training", current_epoch |-> 0,
                       total_epochs |-> threads[t].epochs,
                       message |-> Msg("Initialising...", 0, 0),
                       val_acc |-> 0, best_acc |-> 0]
    /\ train_lock' = Released(t)
    /\ threads' = [threads EXCEPT ![t].pc = "t1010"]
    /\ UNCHANGED <<vit_model, VIT_CLASSES, ckpt, rt, req, vid, disk, boot, ws, poll>>

\* Lines 1010-1023: the label set is read from the global VIT_CLASSES, the
\* model is built with that many outputs, and the checkpoint file (if any)
\* is loaded into it; load_state_dict raises on a head of another size.
TBuild(t) ==
    /\ t \in Threads
    /\ threads[t].pc = "t1010"
    /\ LET num_classes == IF VIT_CLASSES # <<>> THEN Len(VIT_CLASSES) ELSE 10
           classes == IF VIT_CLASSES # <<>> THEN VIT_CLASSES ELSE DefaultClasses
           loads == ckpt = None \/ ckpt[1].nout = num_classes
           built == [threads[t] EXCEPT
                         !.num_classes = num_classes,
                         !.classes = classes,
                         !.model = Some([id |-> t, nout |-> num_classes, steps |-> 0])]
       IN  threads' = [threads EXCEPT
                         ![t] = IF loads THEN [built EXCEPT !.pc = "t1025"]
                                ELSE Raise(built, "size mismatch")]
    /\ UNCHANGED <<vit_model, VIT_CLASSES, ckpt, train_state, train_lock,
                   rt, req, vid, disk, boot, ws, poll>>

\* Lines 1026-1063: the message is set and the lock released; then the
\* dataset is discovered (ImageFolder raises on a directory without class
\* folders) and loaders, optimizer and best_acc = 0.0 are set up.
TData(t) ==
    /\ t \in Threads
    /\ threads[t].pc = "t1026"
    /\ train_state' = [train_state EXCEPT !.message = Msg("preparing data...", 0, 0)]
    /\ train_lock' = Released(t)
    /\ \E ok \in BOOLEAN :
         threads' = [threads EXCEPT
                       ![t] = IF ok THEN [@ EXCEPT !.pc = "t1065", !.best_acc = 0,
                                                   !.epoch = 0]
                              ELSE Raise(@, "no class folders")]
    /\ UNCHANGED <<vit_model, VIT_CLASSES, ckpt, rt, req, vid, disk, boot, ws, poll>>

\* torch.save({...}, VIT_WEIGHTS) of lines 1108-1112.
SavedCheckpoint(t) ==
    Some([fmt |-> "dict", classes |-> Some(threads[t].classes),
          num_classes |-> Some(threads[t].num_classes),
          nout |-> threads[t].num_classes, by |-> t, epoch |-> threads[t].epoch])

\* Line 1067: if epoch == unfreeze_epoch
Unfreezes_ge(epoch, unfreeze_epoch) == epoch >= unfreeze_epoch

Unfreezes(epoch, unfreeze_epoch) == epoch = unfreeze_epoch

\* Line 1106: if va > best_acc
Improves_ge(va, best_acc) == va >= best_acc

Improves(va, best_acc) == va > best_acc

\* Lines 1065-1112: one epoch (unfreeze at the boundary, train, validate,
\* keep the best checkpoint), or the end of `for epoch in range(epochs)`.
\* A batch may raise.
TEpoch(t) ==
    /\ t \in Threads
    /\ threads[t].pc = "t1065"
    /\ LET th == threads[t]
           unf == Unfreezes(th.epoch, th.unfreeze_epoch)
           frozen == IF unf THEN FALSE ELSE th.frozen
           rebuilds == IF unf THEN th.rebuilds + 1 ELSE th.rebuilds
       IN  IF th.epoch >= th.epochs
           THEN /\ threads' = [threads EXCEPT ![t].pc = "t1127"]
                /\ ckpt' = ckpt
           ELSE \/ /\ threads' = [threads EXCEPT
                                     ![t] = Raise([th EXCEPT !.frozen = frozen,
                                                             !.rebuilds = rebuilds],
                                                  "batch failed")]
                   /\ ckpt' = ckpt
                \/ \E va \in AccValues :
                     LET saves == Improves(va, th.best_acc)
                     IN  /\ threads' = [threads EXCEPT
                                          ![t].va = va,
                                          ![t].model = Some([@[1] EXCEPT !.steps = @ + 1]),
                                          ![t].best_acc = IF saves THEN va ELSE @,
                                          ![t].frozen = frozen,
                                          ![t].rebuilds = rebuilds,
                                          ![t].hist = Append(@, [va |-> va, frozen |-> frozen,
                                                                 saved |-> saves]),
                                          ![t].pc = "t1114"]
                         /\ ckpt' = IF saves THEN SavedCheckpoint(t) ELSE ckpt
    /\ UNCHANGED <<vit_model, VIT_CLASSES, train_state, train_lock,
                   rt, req, vid, disk, boot, ws, poll>>

\* Lines 1115-1124, then the next iteration.
TUpdate(t) ==
    /\ t \in Threads
    /\ threads[t].pc = "t1115"
    /\ train_state' = [train_state EXCEPT
                         !.current_epoch = threads[t].epoch + 1,
                         !.val_acc = threads[t].va,
                         !.best_acc = threads[t].best_acc,
                         !.message = Msg("Epoch", threads[t].epoch + 1, threads[t].va)]
    /\ train_lock' = Released(t)
    /\ threads' = [threads EXCEPT ![t].pc = "t1065", ![t].epoch = @ + 1]
    /\ UNCHANGED <<vit_model, VIT_CLASSES, ckpt, rt, req, vid, disk, boot, ws, poll>>

\* Lines 1126-1127: model.eval(); vit_model = model. The object trained in
\* the loop is installed as it is; the file written at the best epoch is
\* not read back.
InstalledModel_best(th, file) ==
    IF file = None THEN th.model
    ELSE Some([id |-> file[1].by, nout |-> file[1].nout, steps |-> file[1].epoch + 1])

InstalledModel(th, file) == th.model

\* Lines 1127-1128: vit_model = model
TSwapModel(t) ==
    /\ t \in Threads
    /\ threads[t].pc = "t1127"
    /\ vit_model' = InstalledModel(threads[t], ckpt)
    /\ threads' = [threads EXCEPT ![t].pc = "t1129", ![t].installed = TRUE]
    /\ UNCHANGED <<VIT_CLASSES, ckpt, train_state, train_lock, rt, req, vid, disk, boot, ws, poll>>

\* What follows the swap: `with train_lock` of line 1131, still inside the
\* try but with nothing left that raises.
SwapNext_raises == "t1138"

SwapNext == "t1131"

\* Line 1129: VIT_CLASSES = classes
TSwapClasses(t) ==
    /\ t \in Threads
    /\ threads[t].pc = "t1129"
    /\ VIT_CLASSES' = threads[t].classes
    /\ threads' = [threads EXCEPT ![t].pc = SwapNext]
    /\ UNCHANGED <<vit_model, ckpt, train_state, train_lock, rt, req, vid, disk, boot, ws, poll>>

\* Lines 1132-1135.
TDone(t) ==
    /\ t \in Threads
    /\ threads[t].pc = "t1132"
    /\ train_state' = [train_state EXCEPT
                         !.status = "completed",
                         !.message = Msg("Training complete", 0, threads[t].best_acc)]
    /\ train_lock' = Released(t)
    /\ threads' = [threads EXCEPT ![t] = Ended(threads[t])]
    /\ UNCHANGED <<vit_model, VIT_CLASSES, ckpt, rt, req, vid, disk, boot, ws, poll>>

\* Lines 1137-1139: except Exception as e.
TFail(t) ==
    /\ t \in Threads
    /\ threads[t].pc = "t1139"
    /\ train_state' = [train_state EXCEPT
                         !.status = "failed",
                         !.message = Msg(threads[t].error, 0, 0)]
    /\ train_lock' = Released(t)
    /\ threads' = [threads EXCEPT ![t] = Ended(threads[t])]
    /\ UNCHANGED <<vit_model, VIT_CLASSES, ckpt, rt, req, vid, disk, boot, ws, poll>>

\* The critical sections of _train, which end by releasing the lock.
ThreadCritical(t) == TInit(t) \/ TData(t) \/ TUpdate(t) \/ TDone(t) \/ TFail(t)

\* Everything _train does outside its critical sections.
ThreadCompute(t) ==
    TLock(t) \/ TBuild(t) \/ TEpoch(t) \/ TSwapModel(t) \/ TSwapClasses(t)

ThreadStep(t) == ThreadCritical(t) \/ ThreadCompute(t)

TrainStep == \E t \in ThreadIds : ThreadStep(t)

\* The training controller: start requests racing with the runs they started.
Next == StartRetrain(MaxRuns, {DefaultUnfreeze}) \/ RetrainStep \/ TrainStep

Spec == Init /\ [][Next]_vars

\* One training run at a time, interleaved with image requests.
NextSwap ==
    \/ StartRetrain(MaxSwapRuns, {DefaultUnfreeze}) \/ RetrainStep \/ TrainStep
    \/ StartImage(SmallImages) \/ ImageStep

SpecSwap == Init /\ [][NextSwap]_vars

---------------------------------------------------------------------------
(* Streaming channel: websocket_feed and ConnectionManager *)

\* Line 661: await manager.connect(websocket)
WsConnect ==
    /\ LoopFree
    /\ ws.pc = "closed"
    /\ ws.chan = "none"
    /\ ws' = [ws EXCEPT !.pc = "recv", !.chan = "open", !.active = TRUE]
    /\ UNCHANGED <<vit_model, VIT_CLASSES, ckpt, train_state, train_lock, threads,
                   rt, req, vid, disk, boot, poll>>

\* Lines 664-670: a frame arrives and is decoded; an undecodable one is
\* answered with {"error": "invalid frame"}, a decoded one enters
\* run_detection (whose steps are those of DetectStep).
WsReceive ==
    /\ LoopFree
    /\ ws.pc = "recv"
    /\ Len(ws.got) < MaxWsFrames
    /\ \E img \in SmallImages :
         IF img = None
         THEN /\ ws' = [ws EXCEPT !.got = Append(@, FALSE),
                                  !.replies = Append(@, "error")]
              /\ req' = req
         ELSE /\ ws' = [ws EXCEPT !.got = Append(@, TRUE), !.pc = "detect"]
              /\ req' = [IdleReq EXCEPT !.pc = "yolo", !.ep = "websocket_feed",
                                        !.image = img]
    /\ UNCHANGED <<vit_model, VIT_CLASSES, ckpt, train_state, train_lock, threads,
                   rt, vid, disk, boot, poll>>

\* Line 671: await websocket.send_json(response.model_dump()). An exception
\* out of run_detection is not a WebSocketDisconnect: it leaves the handler,
\* the server closes the channel, and manager.disconnect is not called.
WsSend ==
    /\ ws.pc = "detect"
    /\ req.pc = "done"
    /\ ws' = IF req.resp[1].code = 200
             THEN [ws EXCEPT !.pc = "recv", !.replies = Append(@, "detections")]
             ELSE [ws EXCEPT !.pc = "closed", !.chan = "crashed"]
    /\ req' = IdleReq
    /\ UNCHANGED <<vit_model, VIT_CLASSES, ckpt, train_state, train_lock, threads,
                   rt, vid, disk, boot, poll>>

\* Lines 672-673: the client goes away while the handler awaits a frame.
WsDisconnect ==
    /\ LoopFree
    /\ ws.pc = "recv"
    /\ ws' = [ws EXCEPT !.pc = "closed", !.chan = "client_closed", !.active = FALSE]
    /\ UNCHANGED <<vit_model, VIT_CLASSES, ckpt, train_state, train_lock, threads,
                   rt, req, vid, disk, boot, poll>>

WsStep == WsConnect \/ WsReceive \/ WsSend \/ WsDisconnect

\* The streaming channel with one training run interleaved.
NextFeed ==
    \/ WsStep \/ DetectStep
    \/ StartRetrain(MaxSwapRuns, {DefaultUnfreeze}) \/ RetrainStep \/ TrainStep

SpecFeed == Init /\ [][NextFeed]_vars

---------------------------------------------------------------------------
(* Status poll: train_status, run on a worker thread of the pool *)

\* `with train_lock:` is entered only when nobody holds the lock.
PollMayEnter_nolock(lock) == TRUE

PollMayEnter(lock) == lock = Free

\* GET /model/train/status arrives and is handed to a worker thread.
StartPoll ==
    /\ LoopFree
    /\ poll.pc = "idle"
    /\ poll.n < MaxPolls
    /\ poll' = [poll EXCEPT !.pc = "p957", !.snap = None, !.resp = None]
    /\ UNCHANGED <<vit_model, VIT_CLASSES, ckpt, train_state, train_lock, threads,
                   rt, req, vid, disk, boot, ws>>

\* Line 957: with train_lock:
PollAcquire ==
    /\ poll.pc = "p957"
    /\ PollMayEnter(train_lock)
    /\ train_lock' = <<"poll", 0>>
    /\ poll' = [poll EXCEPT !.pc = "p959"]
    /\ UNCHANGED <<vit_model, VIT_CLASSES, ckpt, train_state, threads,
                   rt, req, vid, disk, boot, ws>>

\* Lines 959-965: the keyword arguments are evaluated one after the other;
\* status, current_epoch, total_epochs and the per-epoch measurements first.
PollRead959 ==
    /\ poll.pc = "p959"
    /\ poll' = [poll EXCEPT
                  !.pc = "p966",
                  !.snap = Some([status |-> train_state.status,
                                 current_epoch |-> train_state.current_epoch,
                                 total_epochs |-> train_state.total_epochs,
                                 val_acc |-> train_state.val_acc])]
    /\ UNCHANGED <<vit_model, VIT_CLASSES, ckpt, train_state, train_lock, threads,
                   rt, req, vid, disk, boot, ws>>

\* Lines 966-968: best_acc, elapsed_sec and message are read, the response is
\* built and the lock is released on leaving the block.
PollRead966 ==
    /\ poll.pc = "p966"
    /\ poll' = [poll EXCEPT
                  !.pc = "done", !.snap = None,
                  !.resp = Some([status |-> poll.snap[1].status,
                                 current_epoch |-> poll.snap[1].current_epoch,
                                 total_epochs |-> poll.snap[1].total_epochs,
                                 val_acc |-> poll.snap[1].val_acc,
                                 best_acc |-> train_state.best_acc,
                                 message |-> train_state.message])]
    /\ train_lock' = Free
    /\ UNCHANGED <<vit_model, VIT_CLASSES, ckpt, train_state, threads,
                   rt, req, vid, disk, boot, ws>>

\* The response has been sent.
PollReturn ==
    /\ LoopFree
    /\ poll.pc = "done"
    /\ poll' = [IdlePoll EXCEPT !.n = poll.n + 1]
    /\ UNCHANGED <<vit_model, VIT_CLASSES, ckpt, train_state, train_lock, threads,
                   rt, req, vid, disk, boot, ws>>

PollStep == StartPoll \/ PollAcquire \/ PollRead959 \/ PollRead966 \/ PollReturn

\* One training run at a time, with every unfreeze boundary, polled.
NextRun ==
    StartRetrain(MaxSwapRuns, UnfreezeValues) \/ RetrainStep \/ TrainStep \/ PollStep

SpecRun == Init /\ [][NextRun]_vars

---------------------------------------------------------------------------
(* Scheduling: what the threads and the event loop guarantee *)

\* One training run at a time, started by requests on the event loop.
NextTrain ==
    StartRetrain(MaxSwapRuns, {DefaultUnfreeze}) \/ RetrainStep \/ TrainStep

\* Every handler that can step does, and so does every _train thread: each
\* epoch's computation terminates and the thread is scheduled fairly. A
\* thread that waits for train_lock gets it if the lock is free again and
\* again (start requests may keep taking it).
SpecFair ==
    /\ Init /\ [][NextTrain]_vars
    /\ WF_vars(RetrainStep)
    /\ \A t \in ThreadIds : WF_vars(ThreadStep(t)) /\ SF_vars(TLock(t))

\* What train_status does once it runs on its worker thread.
PollRun == PollAcquire \/ PollRead959 \/ PollRead966 \/ PollReturn

\* A training run with status polls.
NextLive ==
    StartRetrain(MaxSwapRuns, {DefaultUnfreeze}) \/ RetrainStep \/ TrainStep \/ PollStep

\* Handlers and worker threads run when they can, a critical section once
\* entered is left, and a poll that waits for the lock gets it if the lock
\* is free again and again (start requests may keep taking it). Nothing is
\* assumed about the time _train spends outside its critical sections
\* (building, an epoch, the swap).
SpecLive ==
    /\ Init /\ [][NextLive]_vars
    /\ WF_vars(RetrainStep)
    /\ WF_vars(PollRun)
    /\ SF_vars(PollAcquire)
    /\ \A t \in ThreadIds : WF_vars(ThreadCritical(t))

---------------------------------------------------------------------------
(* run_detection as one call, for callers that no training run interleaves *)

\* classify_crop on a crop whose classifier answer is fixed by the scene.
classify_crop(handle, classes, box) ==
    IF handle = None THEN [ok |-> TRUE, label |-> "Unknown", conf |-> 0]
    ELSE LET o == CHOOSE x \in ClassifierOutputs(handle[1], box) : TRUE
         IN  IF o.idx > Len(classes)
             THEN [ok |-> FALSE, label |-> "", conf |-> 0]
             ELSE [ok |-> TRUE, label |-> classes[o.idx], conf |-> o.conf]

\* One iteration of the loop of run_detection (lines 209-236).
DetectBox(handle, classes, box) ==
    LET c == classify_crop(handle, classes, box)
        bl == best_label(handle, c.label, c.conf, box.label, box.conf)
        bc == best_conf(handle, c.conf, box.conf)
    IN  DetectionResult(bl, determine_status(bc, bl), bc, box.xyxy,
                        IF Loaded(handle) THEN Some(c.label) ELSE None,
                        IF Loaded(handle) THEN Some(c.conf) ELSE None)

\* run_detection: ok is FALSE when classify_crop raised IndexError.
run_detection(handle, classes, boxes) ==
    IF \E i \in 1..Len(boxes) : ~classify_crop(handle, classes, boxes[i]).ok
    THEN [ok |-> FALSE, detections |-> <<>>]
    ELSE [ok |-> TRUE,
          detections |-> [i \in 1..Len(boxes) |-> DetectBox(handle, classes, boxes[i])]]

---------------------------------------------------------------------------
(* Video pipeline: detect_video *)

\* What the frames of a video show.
SceneA ==
    << Box(<<1, 2, 30, 40>>, 8501, "Drone", {8500}, {1}),
       Box(<<5, 5, 60, 44>>, 8000, "tank", {2500}, {2}),
       Box(<<7, 9, 20, 21>>, 2500, "airplane", {8001}, {1}) >>
SceneB == << Box(<<3, 3, 33, 43>>, 8500, "tank", {8501}, {2}) >>
SceneC == << >>
Scenes == {SceneA, SceneB, SceneC}

\* A video repeats a pattern of scenes: frame i shows pattern[(i mod len) + 1].
Patterns == UNION { [1..n -> Scenes] : n \in 1..MaxPattern }
SceneOf(pattern, i) == pattern[(i % Len(pattern)) + 1]

\* Values of the `confidence` query parameter (ge=0, le=100; default 25.0).
Thresholds == {0, 2500, 8200, 10000}

\* Outcomes of subprocess.run(["ffmpeg", ...], capture_output=True, timeout=120):
\* FileNotFoundError, TimeoutExpired, exit status 0, exit status non-zero.
FfmpegOutcomes == {"missing", "timeout", "ok", "exit1"}

\* Lines 474-481: the upload is written to a NamedTemporaryFile(delete=False).
StartVideo ==
    /\ LoopFree
    /\ \E k \in 1..MaxInterval, c \in Thresholds, o \in BOOLEAN, p \in Patterns :
         vid' = [IdleVid EXCEPT !.pc = "v484", !.frame_interval = k,
                                !.confidence = c, !.opens = o, !.pattern = p]
    /\ disk' = [f \in DOMAIN disk |-> IF f = "tmp_in" THEN "upload" ELSE "absent"]
    /\ UNCHANGED <<vit_model, VIT_CLASSES, ckpt, train_state, train_lock, threads,
                   rt, req, boot, ws, poll>>

\* Lines 484-512: cap.isOpened() or HTTPException(400); then tmp_out and the
\* VideoWriter on it are created.
VOpen ==
    /\ vid.pc = "v484"
    /\ IF ~vid.opens
       THEN /\ vid' = [vid EXCEPT !.pc = "finally",
                         !.pending = Some([code |-> 400, detail |-> "Could not open video file"])]
            /\ disk' = disk
       ELSE /\ vid' = [vid EXCEPT !.pc = "v514", !.bound = @ \cup {"tmp_out"}]
            /\ disk' = [disk EXCEPT !["tmp_out"] = "mp4v"]
    /\ UNCHANGED <<vit_model, VIT_CLASSES, ckpt, train_state, train_lock, threads,
                   rt, req, boot, ws, poll>>

\* dets = [d for d in dets if d.confidenceScore >= confidence]
FilterDets_none(dets, confidence) == dets

FilterDets(dets, confidence) ==
    SelectSeq(dets, LAMBDA d : d.confidenceScore >= confidence)

\* frame_idx % frame_interval == 0
Sampled_shifted(frame_idx, frame_interval) == (frame_idx + 1) % frame_interval = 0

Sampled(frame_idx, frame_interval) == frame_idx % frame_interval = 0

\* if len(dets) > peak_det_count: peak_det_count, peak_frame = len(dets), frame_idx
NewPeak_ge(n, peak_det_count) == n >= peak_det_count

NewPeak(n, peak_det_count) == n > peak_det_count

\* frame_detections.append(FrameDetection(frameIndex=frame_idx, ..., detections=dets))
\* is reached for every sampled frame, whatever dets holds.
Recorded_nonempty(frame_detections, frame_idx, dets) ==
    IF dets = <<>> THEN frame_detections
    ELSE Append(frame_detections, [frameIndex |-> frame_idx, detections |-> dets])

Recorded(frame_detections, frame_idx, dets) ==
    Append(frame_detections, [frameIndex |-> frame_idx, detections |-> dets])

\* for d in dets: all_det_objects.append(d.objectName); all_confidences.append(...)
Column(dets, field) == [i \in 1..Len(dets) |-> dets[i][field]]

\* for d in dets: if d.status == "threat": threat_count += 1
\*                elif d.status == "verified": verified_count += 1
\*                else: analyzing_count += 1
Tally_once(count, dets, statuses) ==
    count + (IF \E i \in 1..Len(dets) : dets[i].status \in statuses THEN 1 ELSE 0)

Tally(count, dets, statuses) ==
    count + Cardinality({i \in 1..Len(dets) : dets[i].status \in statuses})

Statuses == {"threat", "verified", "analyzing"}

RECURSIVE Sum(_)
Sum(seq) == IF seq = <<>> THEN 0 ELSE Head(seq) + Sum(Tail(seq))

\* round(sum(all_confidences) / total_dets, 2) if total_dets else 0.0, on
\* confidences held in hundredths of a percent: the nearest hundredth.
AvgConf(all_confidences) ==
    LET total_dets == Len(all_confidences)
    IN  IF total_dets = 0 THEN 0
        ELSE (2 * Sum(all_confidences) + total_dets) \div (2 * total_dets)

\* Lines 586-603: the VideoSummary. sorted(set(all_det_objects)) is a list
\* without repetitions in a fixed order, held here as the set of its members.
VideoSummary(v) ==
    [totalFramesProcessed |-> v.processed_count,
     totalDetections |-> Len(v.all_confidences),
     uniqueObjects |-> {v.all_det_objects[i] : i \in 1..Len(v.all_det_objects)},
     threats |-> v.threat_count,
     verified |-> v.verified_count,
     analyzing |-> v.analyzing_count,
     avgConfidence |-> AvgConf(v.all_confidences),
     peakDetectionFrame |-> v.peak_frame]

\* What writer.write is given: the annotated image of a processed frame (with
\* the detections drawn on it) or a raw source frame.
Annotated(i, dets) == [kind |-> "annotated", of |-> i, drawn |-> dets]
Raw(i) == [kind |-> "raw", of |-> i, drawn |-> <<>>]

\* Lines 514-560: one iteration of `while True`, or the end of the stream.
\* process_video_frame raises when run_detection does.
VFrame ==
    /\ vid.pc = "v514"
    /\ \E ret \in BOOLEAN :
         /\ ret => vid.frame_idx < MaxFrames
         /\ IF ~ret
            THEN vid' = [vid EXCEPT !.pc = "v562"]
            ELSE IF Sampled(vid.frame_idx, vid.frame_interval)
            THEN LET r == run_detection(vit_model, VIT_CLASSES,
                                        SceneOf(vid.pattern, vid.frame_idx))
                     annotated == Annotated(vid.frame_idx, r.detections)
                     dets == FilterDets(r.detections, vid.confidence)
                     peak == NewPeak(Len(dets), vid.peak_det_count)
                 IN  IF ~r.ok
                     THEN vid' = [vid EXCEPT !.pc = "finally",
                                    !.pending = Some([code |-> 500, detail |-> "IndexError"])]
                     ELSE vid' = [vid EXCEPT
                            !.frame_detections = Recorded(@, vid.frame_idx, dets),
                            !.all_det_objects = @ \o Column(dets, "objectName"),
                            !.all_confidences = @ \o Column(dets, "confidenceScore"),
                            !.threat_count = Tally(@, dets, {"threat"}),
                            !.verified_count = Tally(@, dets, {"verified"}),
                            !.analyzing_count = Tally(@, dets, Statuses \ {"threat", "verified"}),
                            !.peak_det_count = IF peak THEN Len(dets) ELSE @,
                            !.peak_frame = IF peak THEN vid.frame_idx ELSE @,
                            !.thumbnail = IF vid.processed_count = 0 THEN Some(annotated) ELSE @,
                            !.last_annotated = Some(annotated),
                            !.processed_count = @ + 1,
                            !.written = Append(@, annotated),
                            !.frame_idx = @ + 1]
            ELSE vid' = [vid EXCEPT
                            !.written = Append(@, IF vid.last_annotated # None
                                                  THEN vid.last_annotated[1]
                                                  ELSE Raw(vid.frame_idx)),
                            !.frame_idx = @ + 1]
    /\ UNCHANGED <<vit_model, VIT_CLASSES, ckpt, train_state, train_lock, threads,
                   rt, req, disk, boot, ws, poll>>

\* Lines 562-579: tmp_final is created empty, ffmpeg is run on tmp_out; only
\* an exception selects the mp4v file, an unsuccessful exit does not.
VTranscode ==
    /\ vid.pc = "v562"
    /\ \E o \in FfmpegOutcomes :
         /\ vid' = [vid EXCEPT !.pc = "v581", !.bound = @ \cup {"tmp_final"},
                               !.ffmpeg = o,
                               !.video_path = IF o \in {"missing", "timeout"}
                                              THEN "tmp_out" ELSE "tmp_final"]
         /\ disk' = [disk EXCEPT !["tmp_final"] = IF o = "ok" THEN "h264" ELSE "empty"]
    /\ UNCHANGED <<vit_model, VIT_CLASSES, ckpt, train_state, train_lock, threads,
                   rt, req, boot, ws, poll>>

\* Lines 581-615: the file at video_path is read and the response is built.
VRespond ==
    /\ vid.pc = "v581"
    /\ vid' = [vid EXCEPT !.pc = "finally",
                          !.frames = vid.frame_detections,
                          !.summary = Some(VideoSummary(vid)),
                          !.pending = Some([code |-> 200, detail |-> disk[vid.video_path]])]
    /\ UNCHANGED <<vit_model, VIT_CLASSES, ckpt, train_state, train_lock, threads,
                   rt, req, disk, boot, ws, poll>>

\* Lines 617-629: cleanup_paths = [tmp_in.name, tmp_out.name] is evaluated
\* outside any try: with tmp_out unassigned it raises UnboundLocalError,
\* which replaces the pending exception and skips the deletions. Only
\* tmp_final is guarded by `except NameError`.
Cleanup(v) ==
    IF "tmp_out" \notin v.bound THEN disk
    ELSE [f \in DOMAIN disk |->
            IF f \in {"tmp_in", "tmp_out"} \/ (f = "tmp_final" /\ f \in v.bound)
            THEN "absent" ELSE disk[f]]

VFinally ==
    /\ vid.pc = "finally"
    /\ disk' = Cleanup(vid)
    /\ vid' = [vid EXCEPT !.pc = "done", !.pending = None,
                 !.resp = IF "tmp_out" \notin vid.bound
                          THEN Some([code |-> 500, detail |-> "UnboundLocalError"])
                          ELSE vid.pending]
    /\ UNCHANGED <<vit_model, VIT_CLASSES, ckpt, train_state, train_lock, threads,
                   rt, req, boot, ws, poll>>

\* The response (or error) has been sent and the handler's frame is gone.
VReturn ==
    /\ vid.pc = "done"
    /\ vid' = IdleVid
    /\ UNCHANGED <<vit_model, VIT_CLASSES, ckpt, train_state, train_lock, threads,
                   rt, req, disk, boot, ws, poll>>

NextVideo ==
    StartVideo \/ VOpen \/ VFrame \/ VTranscode \/ VRespond \/ VFinally \/ VReturn

SpecVideo == Init /\ [][NextVideo]_vars

---------------------------------------------------------------------------
(* Properties *)

\* C1: when retrain_model tests the status under the lock (line 989) and it
\* is "training", the handler ends with HTTP 409, and that step changes no
\* field of train_state and starts no thread.
C1_ConflictRejected ==
    [][ (rt.pc = "r989" /\ train_state.status = "training" /\ rt' # rt)
        => /\ rt'.pc = "done"
           /\ rt'.resp = Some([code |-> 409, detail |-> "Training already in progress"])
           /\ train_state' = train_state
           /\ threads' = threads ]_vars

C1_Witness ==
    /\ rt.pc = "done"
    /\ rt.resp # None
    /\ rt.resp[1].code = 409
    /\ train_state.status = "training"

ActiveRuns == {t \in Threads : threads[t].pc # "done"}

\* C2: at most one training run (_train thread) is active at any time.
C2_SingleActiveRun == Cardinality(ActiveRuns) <= 1

\* The label set built together with a handle: the one module load assigned
\* for the start-up handle, the `classes` of the run for a trained handle.
LabelSetOf(handle) ==
    IF handle.id = 0 THEN boot.VIT_CLASSES ELSE threads[handle.id].classes

\* C3: the handle classify_crop called and the label set it indexed belong
\* together: both pre-swap or both post-swap.
C3_SwapAtomic ==
    req.obs # None => req.obs[1].classes = LabelSetOf(req.obs[1].handle)

\* C4: when detect_video has ended, none of its temporary files is on disk.
C4_NoTempFilesRemain ==
    vid.pc = "done" => \A f \in DOMAIN disk : disk[f] = "absent"

\* C5: an upload that does not open as a video ends in HTTP 400 "Could not
\* open video file", and no output file was allocated.
C5_UnopenableIsInvalidInput ==
    (vid.pc = "done" /\ ~vid.opens)
    => /\ vid.resp = Some([code |-> 400, detail |-> "Could not open video file"])
       /\ vid.bound = {}

\* The frame indices below n that are multiples of k.
Multiples(n, k) == {i \in 0..(n - 1) : i % k = 0}

\* C6: of the frames read so far exactly those with i mod k = 0 were run
\* through detection and written as their own annotated image; every other
\* frame was written as the annotated image of the latest processed frame
\* at or before it (the raw frame when there is none).
C6_FrameSampling ==
    LET k == vid.frame_interval
        w == vid.written
        fd == vid.frame_detections
    IN  /\ {fd[n].frameIndex : n \in 1..Len(fd)} = Multiples(Len(w), k)
        /\ \A j \in 1..Len(w) :
             LET i == j - 1
                 before == {p \in Multiples(Len(w), k) : p <= i}
             IN  IF i % k = 0
                 THEN w[j].kind = "annotated" /\ w[j].of = i
                 ELSE IF before = {}
                 THEN w[j] = Raw(i)
                 ELSE LET p == CHOOSE q \in before : \A r \in before : r <= q
                      IN  w[j] = w[p + 1] /\ w[j].kind = "annotated" /\ w[j].of = p

C6_Witness ==
    /\ vid.frame_interval = 5
    /\ Len(vid.written) = 12
    /\ {vid.frame_detections[n].frameIndex : n \in 1..Len(vid.frame_detections)} = {0, 5, 10}
    /\ vid.written[10].of = 5

\* C7: peak_frame is the smallest processed frame index whose filtered
\* detection count equals the largest count of any processed frame.
C7_PeakFirstWins ==
    LET fd == vid.frame_detections
        Count(n) == Len(fd[n].detections)
        Peaks == {n \in 1..Len(fd) : \A m \in 1..Len(fd) : Count(m) <= Count(n)}
    IN  fd # <<>> =>
          \E n \in Peaks :
             /\ fd[n].frameIndex = vid.peak_frame
             /\ \A m \in Peaks : fd[n].frameIndex <= fd[m].frameIndex

C7_Witness ==
    /\ vid.pc = "done"
    /\ vid.frame_interval = 5
    /\ Len(vid.frame_detections) = 3
    /\ vid.frame_detections[2].frameIndex = 5
    /\ Len(vid.frame_detections[1].detections) = 3
    /\ Len(vid.frame_detections[2].detections) = 3
    /\ vid.peak_frame = 0

\* The labels of the model that contain a threat keyword, case-insensitively.
KeywordLabels == {"Drone", "Unknown", "UAV", "aircraft"}

\* C8: every Detection's status is threat when its label has a keyword and
\* its confidence exceeds 80, else verified above 85, else analyzing.
C8_StatusHeuristic ==
    \A n \in 1..Len(req.detections) :
        LET det == req.detections[n]
        IN  det.status =
              IF det.objectName \in KeywordLabels /\ det.confidenceScore > 8000
              THEN "threat"
              ELSE IF det.confidenceScore > 8500 THEN "verified" ELSE "analyzing"

C8_Witness ==
    \E n \in 1..Len(req.detections) :
        /\ req.detections[n].objectName = "Drone"
        /\ req.detections[n].confidenceScore = 8001
        /\ req.detections[n].status = "threat"

\* C9: once lines 220-221 have run, best label and confidence are the
\* classifier's when a classifier answered and its confidence is strictly
\* larger, else the detector's; equal confidences give the detector's.
C9_Fusion ==
    req.pc \in {"l233", "l234"} =>
        LET b == req.box[1]
        IN  IF req.used # None /\ req.vit_conf > b.conf
            THEN req.bl = req.vit_label /\ req.bc = req.vit_conf
            ELSE req.bl = b.label /\ req.bc = b.conf

C9_Witness ==
    /\ req.pc = "l233"
    /\ req.used # None
    /\ req.vit_conf = req.box[1].conf
    /\ req.vit_label # req.box[1].label
    /\ req.bl = req.box[1].label

\* C10: an upload that does not decode ends in HTTP 400 with neither model
\* invoked, whatever the entry point.
C10_UndecodableIsInvalidInput ==
    (req.pc = "done" /\ req.image = None)
    => /\ req.resp # None /\ req.resp[1].code = 400
       /\ req.yolo_calls = 0
       /\ req.vit_calls = 0

\* C11: on the streaming channel every frame received has exactly one reply,
\* in order: detections for a frame that decodes, an error for one that does
\* not; and the channel is closed by the client only, never by the server.
C11_OneReplyPerFrame ==
    /\ ws.chan # "crashed"
    /\ ws.pc \in {"recv", "closed"} =>
         /\ Len(ws.replies) = Len(ws.got)
         /\ \A n \in 1..Len(ws.got) :
              ws.replies[n] = IF ws.got[n] THEN "detections" ELSE "error"

\* C12: a detection appended for a box that classify_crop answered with the
\* handle absent (line 179) has the detector's label and confidence and
\* neither secondary field, whatever a training run installs meanwhile.
C12_DegradedMode ==
    [][ (req.pc = "l234" /\ req.used = None /\ req'.pc = "loop")
        => LET det == req'.detections[Len(req'.detections)]
           IN  /\ det.objectName = req.box[1].label
               /\ det.confidenceScore = req.box[1].conf
               /\ det.vitLabel = None
               /\ det.vitConfidence = None ]_vars

\* The moves of TrainingState.status the lifecycle allows.
Lifecycle ==
    { <<"idle", "training">>, <<"training", "completed">>, <<"training", "failed">>,
      <<"completed", "training">>, <<"failed", "training">> }

\* C13: status changes only along the lifecycle, for every interleaving of
\* start requests and training runs.
C13_Lifecycle ==
    [][ train_state'.status # train_state.status
        => <<train_state.status, train_state'.status>> \in Lifecycle ]_vars

\* C15: when the transcoder is missing, times out or exits unsuccessfully, the
\* request still succeeds and the video returned is the intermediate mp4v file.
C15_TranscodeFallback ==
    (vid.pc = "done" /\ vid.ffmpeg \in {"missing", "timeout", "exit1"})
    => vid.resp = Some([code |-> 200, detail |-> "mp4v"])

\* C14: the step that handles an exception of run t sets status failed with
\* the exception text as message; that run has assigned neither the
\* production handle nor the label set, and after a first run both are
\* what module load left.
C14_FailureLeavesClassifier ==
    [][ \A t \in Threads :
          (threads[t].pc = "t1139" /\ threads'[t].pc = "done")
          => /\ train_state'.status = "failed"
             /\ train_state'.message = Msg(threads[t].error, 0, 0)
             /\ threads[t].error # ""
             /\ ~threads[t].installed
             /\ vit_model' = vit_model /\ VIT_CLASSES' = VIT_CLASSES
             /\ Len(threads) = 1 =>
                  vit_model = boot.vit_model /\ VIT_CLASSES = boot.VIT_CLASSES ]_vars

C14_Witness ==
    /\ Len(threads) = 1
    /\ threads[1].pc = "done"
    /\ train_state.status = "failed"
    /\ train_state.message.text = "batch failed"
    /\ train_state.current_epoch = 1
    /\ ckpt # None /\ ckpt[1].by = 1
    /\ vit_model = boot.vit_model

\* C16: the response a poll returns is the TrainingState of one instant (its
\* epoch, measurements and message come from the same update), and
\* TrainingState changes only in steps of the holder of train_lock.
C16_ConsistentSnapshot ==
    [][ /\ (poll.pc = "p966" /\ poll'.pc = "done")
           => /\ poll'.resp = Some(train_state)
              /\ poll'.resp[1].message.text = "Epoch"
                   => /\ poll'.resp[1].message.epoch = poll'.resp[1].current_epoch
                      /\ poll'.resp[1].message.acc = poll'.resp[1].val_acc
        /\ train_state' # train_state => train_lock # Free /\ train_lock' = Free ]_vars

C16_Witness ==
    /\ poll.pc = "done"
    /\ poll.resp[1].status = "training"
    /\ poll.resp[1].message = Msg("Epoch", 1, poll.resp[1].val_acc)
    /\ poll.resp[1].current_epoch = 1
    /\ train_state.current_epoch = 2

\* The best validation accuracy of the first n epochs of a history (0 if none).
RECURSIVE BestOf(_, _)
BestOf(hist, n) == IF n = 0 THEN 0 ELSE Max(hist[n].va, BestOf(hist, n - 1))

\* The first epoch (counted from 0) that attained the best accuracy.
FirstBest(hist) ==
    CHOOSE e \in 0..(Len(hist) - 1) :
        /\ hist[e + 1].va = BestOf(hist, Len(hist))
        /\ \A d \in 0..(e - 1) : hist[d + 1].va < hist[e + 1].va

C18_UnfreezeOnce ==
    \A t \in Threads :
        LET th == threads[t]
        IN  /\ \A i \in 1..Len(th.hist) :
                 th.hist[i].frozen = (th.unfreeze_epoch \notin 0..(i - 1))
            /\ th.rebuilds <= 1
            /\ th.pc # "done" => (th.rebuilds = 1) = ~th.frozen

C18_Witness ==
    /\ Len(threads) = 1
    /\ threads[1].unfreeze_epoch = 1
    /\ Len(threads[1].hist) = 2
    /\ threads[1].hist[1].frozen /\ ~threads[1].hist[2].frozen
    /\ threads[1].rebuilds = 1
    /\ threads[1].pc = "t1065"

\* C19: under fair scheduling every run that was started ends, and at its
\* end status is completed or failed.
C19_RunsTerminate ==
    \A t \in ThreadIds :
        (t \in Threads)
        ~> (/\ t \in Threads
            /\ threads[t].pc = "done"
            /\ train_state.status \in {"completed", "failed"})

C19_Witness ==
    /\ Len(threads) = 1
    /\ threads[1].pc = "done"
    /\ threads[1].epochs = 2
    /\ train_state.status = "completed"
    /\ train_state.current_epoch = 2

InferenceNeverWaits == req.pc # "idle" => ENABLED ImageStep

---------------------------------------------------------------------------
(* C21: every Detection's boundingBox lies inside the image it came from:
   0 <= x1 <= x2 <= imageWidth and 0 <= y1 <= y2 <= imageHeight. Lines
   210-232 pass box.xyxy to crop() and to bbox unchanged. *)

InsideImage(bbox, w, h) ==
    /\ 0 <= bbox[1] /\ bbox[1] <= bbox[3] /\ bbox[3] <= w
    /\ 0 <= bbox[2] /\ bbox[2] <= bbox[4] /\ bbox[4] <= h

C21_BoxesInsideImage ==
    req.image # None =>
        \A i \in 1..Len(req.detections) :
            InsideImage(req.detections[i].bbox, req.image[1].w, req.image[1].h)


---------------------------------------------------------------------------
(* Video responses *)

\* What run_detection returns for frame i of the video being processed.
FrameDets(i) == run_detection(vit_model, VIT_CLASSES, SceneOf(vid.pattern, i)).detections

\* The detections of frame i that reach the threshold.
Kept(i) ==
    LET full == FrameDets(i)
    IN  {j \in 1..Len(full) : full[j].confidenceScore >= vid.confidence}

FrameCounts(frames) == [n \in 1..Len(frames) |-> Len(frames[n].detections)]

\* C22: every Detection of every FrameRecord has confidenceScore >= the
\* threshold of the request, in the response as while it is built; the
\* record appended for a frame holds exactly the detections of that frame at
\* or above the threshold, in the detector's order, and the summary counters
\* count the recorded detections and no other.
C22_ThresholdFilter ==
    /\ [][ (vid.pc = "v514" /\ Len(vid'.frame_detections) > Len(vid.frame_detections))
           => LET full == FrameDets(vid.frame_idx)
                  rec == vid'.frame_detections[Len(vid'.frame_detections)]
              IN  /\ rec.frameIndex = vid.frame_idx
                  /\ Len(rec.detections) = Cardinality(Kept(vid.frame_idx))
                  /\ \A j \in 1..Len(rec.detections) :
                        \E m \in Kept(vid.frame_idx) : rec.detections[j] = full[m] ]_vars
    /\ [](LET fd == vid.frame_detections
          IN  /\ \A n \in 1..Len(fd) : \A j \in 1..Len(fd[n].detections) :
                    fd[n].detections[j].confidenceScore >= vid.confidence
              /\ Len(vid.all_confidences) = Sum(FrameCounts(fd))
              /\ Len(vid.all_det_objects) = Sum(FrameCounts(fd))
              /\ vid.threat_count + vid.verified_count + vid.analyzing_count
                     = Sum(FrameCounts(fd))
              /\ (vid.summary # None =>
                     /\ vid.frames = fd
                     /\ vid.summary[1].totalDetections = Sum(FrameCounts(fd))))

C22_Witness ==
    /\ vid.summary # None
    /\ \E n \in 1..Len(vid.frames) :
         /\ vid.frames[n].detections # <<>>
         /\ Len(vid.frames[n].detections) < Len(FrameDets(vid.frames[n].frameIndex))

\* C23: the summary of a video response agrees with its FrameRecords:
\* totalFramesProcessed is their number, totalDetections the sum of their
\* detection counts and equal to threats + verified + analyzing,
\* uniqueObjects the set of objectNames in them, and avgConfidence is 0
\* when there is no detection.
C23_SummaryConsistent ==
    vid.summary # None =>
        LET sm == vid.summary[1]
            fr == vid.frames
        IN  /\ sm.totalFramesProcessed = Len(fr)
            /\ sm.totalDetections = Sum(FrameCounts(fr))
            /\ sm.totalDetections = sm.threats + sm.verified + sm.analyzing
            /\ sm.uniqueObjects =
                   UNION { {fr[n].detections[j].objectName :
                              j \in 1..Len(fr[n].detections)} : n \in 1..Len(fr) }
            /\ (sm.totalDetections = 0 => sm.avgConfidence = 0)

C23_Witness ==
    /\ vid.summary # None
    /\ Len(vid.frames) >= 2
    /\ vid.summary[1].totalDetections > 3
    /\ Cardinality(vid.summary[1].uniqueObjects) >= 2
    /\ vid.summary[1].avgConfidence > 0

\* C24: the FrameRecords are those of frames 0, k, 2k, ... below the number
\* of frames read, one each and in that order, whether or not any detection
\* of the frame passed the threshold; the response returns them so.
C24_OneRecordPerSample ==
    LET k == vid.frame_interval
        fd == vid.frame_detections
    IN  /\ Len(fd) = Cardinality(Multiples(vid.frame_idx, k))
        /\ \A n \in 1..Len(fd) : fd[n].frameIndex = (n - 1) * k
        /\ (vid.summary # None => vid.frames = fd)

C24_Witness ==
    /\ vid.pc = "done"
    /\ vid.summary # None
    /\ vid.frame_interval = 5
    /\ Len(vid.frames) = 3
    /\ vid.frames[2].detections = <<>>
    /\ vid.frames[3].detections # <<>>

\* C29: the boxes drawn on the annotated image of a processed frame (the one
\* written to the output, kept as thumbnail and repeated for the skipped
\* frames after it) are the detections of that frame's FrameRecord.
C29_AnnotationMatchesRecord ==
    LET fd == vid.frame_detections
    IN  /\ \A n \in 1..Len(fd) :
             vid.written[fd[n].frameIndex + 1].drawn = fd[n].detections
        /\ (vid.thumbnail # None /\ fd # <<>> => vid.thumbnail[1].drawn = fd[1].detections)


---------------------------------------------------------------------------
(* Status polls and the runs they report *)

\* The start request answered last was accepted: its status="training"
\* response has been returned and no other start request has arrived since.
StartReturned ==
    /\ threads # <<>>
    /\ rt.pc = "done"
    /\ rt.resp = Some([code |-> 200, detail |-> "training"])

\* C25: a status poll that reads train_state once the accepted start request
\* has returned reports that run: status training, completed or failed, and
\* total_epochs the epochs of the request. (A poll issued after the response
\* reads after it; StartPoll is enabled whenever a read in that state is.)
C25_PollSeesNewRun ==
    [][ (poll.pc = "p959" /\ poll'.pc = "p966" /\ StartReturned)
        => /\ poll'.snap[1].status \in {"training", "completed", "failed"}
           /\ poll'.snap[1].total_epochs = threads[Len(threads)].epochs ]_vars


\* C26: whenever the production handle is set, the label set has as many
\* entries as the handle has outputs, so that every index classify_crop
\* computes selects a label.
C26_LabelsMatchHandle ==
    vit_model # None => Len(VIT_CLASSES) = vit_model[1].nout


\* C27: the step that installs the production handle of run t installs the
\* model of that run with every epoch of the run trained into it, whichever
\* epoch was best; the checkpoint file holds those same weights only when
\* the last epoch was saved, that is, was a strict improvement.
C27_FinalStateInstalled ==
    [][ \A t \in Threads :
          (threads[t].pc = "t1127" /\ threads'[t].pc = "t1129")
          => LET th == threads[t]
                 h == vit_model'[1]
             IN  /\ vit_model' # None
                 /\ h.id = t
                 /\ h.steps = th.epochs
                 /\ Len(th.hist) = th.epochs
                 /\ ((ckpt # None /\ ckpt[1].by = t /\ ckpt[1].epoch + 1 = h.steps)
                        => th.hist[th.epochs].saved) ]_vars

C27_Witness ==
    \E t \in Threads :
        /\ threads[t].pc = "t1129"
        /\ threads[t].epochs = 2
        /\ threads[t].hist[1].saved /\ ~threads[t].hist[2].saved
        /\ vit_model = Some([id |-> t, nout |-> threads[t].num_classes, steps |-> 2])
        /\ ckpt[1].by = t /\ ckpt[1].epoch = 0


\* C28: the socket is in manager.active exactly while its websocket_feed
\* handler runs; a handler that has ended, however it ended, has left the
\* list.
C28_ActiveIsRunning ==
    ws.active <=> ws.pc # "closed"


\* C30: every TrainingState a status poll can read (train_status reads
\* under train_lock, so: every state in which the lock is free) has
\* 0 <= current_epoch <= total_epochs, and an epoch update of a run raises
\* current_epoch by exactly 1.
C30_EpochWithinTotal ==
    /\ [](train_lock = Free =>
             /\ 0 <= train_state.current_epoch
             /\ train_state.current_epoch <= train_state.total_epochs)
    /\ [][ \A t \in Threads :
             (threads[t].pc = "t1115" /\ threads'[t].pc = "t1065")
             => train_state'.current_epoch = train_state.current_epoch + 1 ]_vars

===========================================================================
